---------------------------- MODULE Spec2Model ----------------------------
(***************************************************************************)
(* A model of src/app.py: a personal finance tracker (Flask + SQLAlchemy   *)
(* over SQLite).  The state is the four tables, the browser session and    *)
(* the last response; there is one action per route handler.               *)
(*                                                                         *)
(* Strings that the code processes character by character (numeric form    *)
(* fields, categories, dates, the dashboard's month/year selectors) are    *)
(* sequences of one-character strings.  Amounts are exact decimals kept as *)
(* integers in hundredths (Scale); the health score is an exact fraction.  *)
(***************************************************************************)
EXTENDS Integers, Sequences, FiniteSets, TLC

VARIABLES users, transactions, budgets, goals, session, pending, last

vars == <<users, transactions, budgets, goals, session, pending, last>>
tables == <<transactions, budgets, goals>>

-----------------------------------------------------------------------------
(* Bounds of the model *)

\* Rows the three data tables hold together.
MaxRows == 2
\* Largest rowid a table hands out (rowids grow as rows are deleted and added).
MaxId == 2
\* Worker threads serving register requests at once.
MaxPending == 2

-----------------------------------------------------------------------------
(* Strings as sequences of characters *)

DigitChars == <<"0", "1", "2", "3", "4", "5", "6", "7", "8", "9">>
Digits == {DigitChars[i] : i \in 1..10}
DigitVal(c) == (CHOOSE i \in 1..10 : DigitChars[i] = c) - 1

\* A form field or query argument the request does not carry.
Missing == <<"<missing>">>

\* str.strip(): leading and trailing whitespace removed.
RECURSIVE LStrip(_)
LStrip(s) == IF s # <<>> /\ Head(s) = " " THEN LStrip(Tail(s)) ELSE s
RECURSIVE RStrip(_)
RStrip(s) == IF s # <<>> /\ s[Len(s)] = " " THEN RStrip(SubSeq(s, 1, Len(s) - 1)) ELSE s
Strip(s) == RStrip(LStrip(s))

\* str.replace(",", ".")
ReplaceComma(s) == [i \in 1..Len(s) |-> IF s[i] = "," THEN "." ELSE s[i]]

\* str.startswith
StartsWith(s, p) == Len(s) >= Len(p) /\ SubSeq(s, 1, Len(p)) = p

AllDigits(s) == \A i \in 1..Len(s) : s[i] \in Digits

RECURSIVE DigitsValue(_)
DigitsValue(s) == IF s = <<>> THEN 0
                  ELSE 10 * DigitsValue(SubSeq(s, 1, Len(s) - 1)) + DigitVal(s[Len(s)])

Unsigned(s) == IF s # <<>> /\ Head(s) \in {"-", "+"} THEN Tail(s) ELSE s
SignOf(s) == IF s # <<>> /\ Head(s) = "-" THEN -1 ELSE 1

\* Hundredths per unit: amounts are decimals with at most two fractional digits.
Scale == 100

\* The fractional digits f of a numeral, in hundredths (digits past the second
\* are below the model's resolution and dropped; no input here has them).
FracValue(f) == IF Len(f) = 0 THEN 0
                ELSE IF Len(f) = 1 THEN 10 * DigitVal(f[1])
                ELSE 10 * DigitVal(f[1]) + DigitVal(f[2])

\* float(s) on the characters 0-9 . + - and blanks: [sign] digits [. digits]
\* or [sign] . digits, surrounding blanks ignored; anything else raises
\* ValueError.  The value is in hundredths.  Exponents, underscores, "inf"
\* and "nan" are outside the alphabet of the inputs ("x" stands for a letter
\* that cannot occur in a numeral).
ParseFloat(s) ==
    LET t == Strip(s)
        u == Unsigned(t)
        dots == {i \in 1..Len(u) : u[i] = "."}
        ip == IF dots = {} THEN u ELSE SubSeq(u, 1, (CHOOSE i \in dots : TRUE) - 1)
        fp == IF dots = {} THEN <<>> ELSE SubSeq(u, (CHOOSE i \in dots : TRUE) + 1, Len(u))
        wellformed == /\ Cardinality(dots) <= 1
                      /\ AllDigits(ip) /\ AllDigits(fp)
                      /\ Len(ip) + Len(fp) >= 1
    IN IF wellformed
       THEN [ok |-> TRUE, val |-> SignOf(t) * (Scale * DigitsValue(ip) + FracValue(fp))]
       ELSE [ok |-> FALSE, val |-> 0]

\* int(s): [sign] digits, surrounding blanks ignored; else ValueError.
ParseInt(s) ==
    LET t == Strip(s)
        u == Unsigned(t)
    IN IF u # <<>> /\ AllDigits(u)
       THEN [ok |-> TRUE, val |-> SignOf(t) * DigitsValue(u)]
       ELSE [ok |-> FALSE, val |-> 0]

\* parse_number(raw): (raw or "").strip().replace(",", "."), then float().
parse_number(raw) ==
    ParseFloat(ReplaceComma(Strip(IF raw = Missing THEN <<>> ELSE raw)))

\* str(n) for an integer n.
RECURSIVE NatToStr(_)
NatToStr(n) == IF n < 10 THEN <<DigitChars[n + 1]>>
               ELSE NatToStr(n \div 10) \o <<DigitChars[(n % 10) + 1]>>
IntToStr(n) == IF n < 0 THEN <<"-">> \o NatToStr(-n) ELSE NatToStr(n)

\* f"{n:02d}": zero-padded to width 2, the sign counted in the width.
Pad2(n) == IF n >= 0 /\ n < 10 THEN <<"0">> \o NatToStr(n) ELSE IntToStr(n)

-----------------------------------------------------------------------------
(* The persistence layer *)

Max(S) == CHOOSE x \in S : \A y \in S : y <= x

\* SQLite INTEGER PRIMARY KEY without AUTOINCREMENT: largest rowid plus one.
NextId(rows) == IF rows = {} THEN 1 ELSE Max({r.id : r \in rows}) + 1

\* Query.first() over a table scan: the matching row of least rowid.
First(rows) == CHOOSE r \in rows : \A q \in rows : r.id <= q.id

\* Query.get(id): the rows with that primary key (none or one).
Get(rows, id) == {r \in rows : r.id = id}

\* generate_password_hash / check_password_hash
Hash(password) == <<"hash", password>>
CheckHash(h, password) == h = Hash(password)

\* users.username is declared unique=True: an INSERT of a taken username
\* raises IntegrityError.
UniqueUnchecked(rows, username) == FALSE
UniqueViolation(rows, username) == \E r \in rows : r.username = username

\* datetime.date.today()
today == [year |-> 2024, month |-> 5, day |-> 15]

MkDate(y, m, d) == IntToStr(y) \o <<"-">> \o Pad2(m) \o <<"-">> \o Pad2(d)

\* The default category of line 271 and line 180 (the label "Other").
OtherCategory == <<"O", "t", "h", "e", "r">>

\* x or y for strings: the first that is present and non-empty.
Falsy(s) == s = Missing \/ s = <<>>
OrElse(a, b) == IF Falsy(a) THEN b ELSE a

-----------------------------------------------------------------------------
(* Session and the login_required decorator *)

\* The three tables the mutating routes write.
DB == [transactions |-> transactions, budgets |-> budgets, goals |-> goals]

Same(outcome) == [db |-> DB, outcome |-> outcome]

\* current_user(): the User rows (none or one) of the session's username.
current_user ==
    IF session = {} THEN {}
    ELSE LET uname == CHOOSE u \in session : TRUE
         IN IF uname = "" THEN {} ELSE {r \in users : r.username = uname}

\* The row's owner is the current user (lines 294, 439, 466).
OwnsAny(row, user) == TRUE
Owns(row, user) == row.user_id = user.id

\* login_required: without "username" in the session the view does not run.
login_not_required(result) == result
login_required(result) ==
    IF session = {} THEN Same("redirect_login") ELSE result

-----------------------------------------------------------------------------
(* The mutating views.  Each yields the tables after the request and what   *)
(* the response was: a flash message and redirect, or an error.            *)

\* add_transaction, lines 261-285.  Form: amount, type, category_select,
\* category, date.
add_transaction(f) ==
    LET user == current_user
        amount == parse_number(f.amount)
        category == OrElse(f.category_select, OrElse(f.category, OtherCategory))
        date == OrElse(f.date, MkDate(today.year, today.month, today.day))
    IN IF f.amount = Missing THEN Same("bad_request")
       ELSE IF ~amount.ok THEN Same("invalid_number")
       ELSE IF user = {} THEN Same("error500")
       ELSE LET u == CHOOSE r \in user : TRUE
                tr == [id |-> NextId(transactions), user_id |-> u.id,
                       type |-> f.type, category |-> category,
                       amount |-> amount.val, date |-> date]
            IN [db |-> [DB EXCEPT !.transactions = transactions \cup {tr}],
                outcome |-> "added"]

\* delete_transaction, lines 290-298.
delete_transaction(tid) ==
    LET user == current_user
        tr == Get(transactions, tid)
    IN IF tr = {} THEN Same("noop")
       ELSE IF user = {} THEN Same("error500")
       ELSE IF Owns(CHOOSE r \in tr : TRUE, CHOOSE r \in user : TRUE)
            THEN [db |-> [DB EXCEPT !.transactions = transactions \ tr],
                  outcome |-> "deleted"]
            ELSE Same("noop")

\* The current user's Budget rows of a category (filter_by, lines 339, 363, 379).
BudgetsOf(u, category) ==
    {b \in budgets : b.user_id = u.id /\ b.category = category}

\* save_budget_route, lines 330-348.  Form: category, amount.
SaveBudgetRowsInsertAlways(bs, u, category, amount) ==
    bs \cup {[id |-> NextId(bs), user_id |-> u.id,
              category |-> category, amount |-> amount]}
\* Lines 339-344 on the Budget rows bs: the user's first row of the category
\* gets the amount, or a row is added when the user has none.
SaveBudgetRows(bs, u, category, amount) ==
    LET found == {b \in bs : b.user_id = u.id /\ b.category = category}
    IN IF found # {}
       THEN LET existing == First(found)
            IN (bs \ {existing}) \cup {[existing EXCEPT !.amount = amount]}
       ELSE bs \cup {[id |-> NextId(bs), user_id |-> u.id,
                      category |-> category, amount |-> amount]}

save_budget_route(f) ==
    LET user == current_user
        category == Strip(f.category)
        amount == parse_number(f.amount)
    IN IF f.amount = Missing THEN Same("bad_request")
       ELSE IF ~amount.ok THEN Same("invalid_number")
       ELSE IF user = {} THEN Same("error500")
       ELSE [db |-> [DB EXCEPT !.budgets =
                        SaveBudgetRows(budgets, CHOOSE r \in user : TRUE,
                                       category, amount.val)],
             outcome |-> "saved"]

\* update_budget, lines 353-372.  Form: old_category, category, amount.
update_budget(f) ==
    LET user == current_user
        new_category == Strip(f.category)
        amount == parse_number(f.amount)
    IN IF f.amount = Missing THEN Same("bad_request")
       ELSE IF ~amount.ok THEN Same("invalid_number")
       ELSE IF user = {} THEN Same("error500")
       ELSE LET u == CHOOSE r \in user : TRUE
                found == BudgetsOf(u, f.old_category)
            IN IF found = {} THEN Same("not_found")
               ELSE LET b == First(found)
                    IN [db |-> [DB EXCEPT !.budgets = (budgets \ {b}) \cup
                                  {[b EXCEPT !.category = new_category,
                                             !.amount = amount.val]}],
                        outcome |-> "updated"]

\* delete_budget, lines 377-386.
delete_budget(cat) ==
    LET user == current_user
    IN IF user = {} THEN Same("error500")
       ELSE LET found == BudgetsOf(CHOOSE r \in user : TRUE, cat)
            IN IF found # {}
               THEN [db |-> [DB EXCEPT !.budgets = budgets \ {First(found)}],
                     outcome |-> "deleted"]
               ELSE Same("delete_failed")

\* add_savings, lines 409-430.  Form: name, target, current.
add_savings(f) ==
    LET user == current_user
        target == parse_number(f.target)
        current == parse_number(IF f.current = Missing THEN <<"0">> ELSE f.current)
    IN IF f.target = Missing THEN Same("bad_request")
       ELSE IF ~target.ok \/ ~current.ok THEN Same("invalid_number")
       ELSE IF user = {} THEN Same("error500")
       ELSE LET u == CHOOSE r \in user : TRUE
            IN [db |-> [DB EXCEPT !.goals = goals \cup
                          {[id |-> NextId(goals), user_id |-> u.id, name |-> f.name,
                            target |-> target.val, current |-> current.val]}],
                outcome |-> "added"]

\* parse_number of a field that defaults to a stored float (lines 446-447):
\* a float 0.0 is falsy and parses as "", any other float has no strip().
ParseOrStored(raw, stored) ==
    IF raw # Missing THEN [parse_number(raw) EXCEPT !.ok = IF @ THEN "ok" ELSE "ValueError"]
    ELSE IF stored = 0 THEN [ok |-> "ValueError", val |-> 0]
    ELSE [ok |-> "AttributeError", val |-> 0]

\* update_goal, lines 435-458.  Form: name, target, current.
update_goal_name_first(gid, f) ==
    LET user == current_user
        found == Get(goals, gid)
    IN IF found = {} THEN Same("not_found")
       ELSE IF user = {} THEN Same("error500")
       ELSE LET g == CHOOSE r \in found : TRUE
                u == CHOOSE r \in user : TRUE
                name == IF f.name = Missing THEN g.name ELSE f.name
                target == ParseOrStored(f.target, g.target)
                current == ParseOrStored(f.current, g.current)
                oks == <<target.ok, current.ok>>
                named == (goals \ {g}) \cup {[g EXCEPT !.name = name]}
            IN IF ~Owns(g, u) THEN Same("not_found")
               ELSE IF oks[1] = "AttributeError" THEN Same("error500")
               ELSE IF oks[1] = "ValueError"
                    THEN [db |-> [DB EXCEPT !.goals = named], outcome |-> "invalid_number"]
               ELSE IF oks[2] = "AttributeError" THEN Same("error500")
               ELSE IF oks[2] = "ValueError"
                    THEN [db |-> [DB EXCEPT !.goals = named], outcome |-> "invalid_number"]
               ELSE [db |-> [DB EXCEPT !.goals = (goals \ {g}) \cup
                               {[g EXCEPT !.name = name, !.target = target.val,
                                          !.current = current.val]}],
                     outcome |-> "updated"]
update_goal(gid, f) ==
    LET user == current_user
        found == Get(goals, gid)
    IN IF found = {} THEN Same("not_found")
       ELSE IF user = {} THEN Same("error500")
       ELSE LET g == CHOOSE r \in found : TRUE
                u == CHOOSE r \in user : TRUE
                name == IF f.name = Missing THEN g.name ELSE f.name
                target == ParseOrStored(f.target, g.target)
                current == ParseOrStored(f.current, g.current)
                oks == <<target.ok, current.ok>>
            IN IF ~Owns(g, u) THEN Same("not_found")
               ELSE IF oks[1] = "AttributeError" THEN Same("error500")
               ELSE IF oks[1] = "ValueError" THEN Same("invalid_number")
               ELSE IF oks[2] = "AttributeError" THEN Same("error500")
               ELSE IF oks[2] = "ValueError" THEN Same("invalid_number")
               ELSE [db |-> [DB EXCEPT !.goals = (goals \ {g}) \cup
                               {[g EXCEPT !.name = name, !.target = target.val,
                                          !.current = current.val]}],
                     outcome |-> "updated"]

\* delete_goal, lines 463-472.
delete_goal(gid) ==
    LET user == current_user
        found == Get(goals, gid)
    IN IF found = {} THEN Same("delete_failed")
       ELSE IF user = {} THEN Same("error500")
       ELSE IF Owns(CHOOSE r \in found : TRUE, CHOOSE r \in user : TRUE)
            THEN [db |-> [DB EXCEPT !.goals = goals \ found], outcome |-> "deleted"]
            ELSE Same("delete_failed")

-----------------------------------------------------------------------------
(* The dashboard's aggregation, lines 149-232 *)

RECURSIVE SumAmount(_)
SumAmount(rows) == IF rows = {} THEN 0
                   ELSE LET r == CHOOSE x \in rows : TRUE
                        IN r.amount + SumAmount(rows \ {r})

RECURSIVE SumCurrent(_)
SumCurrent(rows) == IF rows = {} THEN 0
                    ELSE LET r == CHOOSE x \in rows : TRUE
                         IN r.current + SumCurrent(rows \ {r})

Min2(a, b) == IF a <= b THEN a ELSE b
Max2(a, b) == IF a >= b THEN a ELSE b

\* Code points of the characters dates are made of, for sorted().
CharCode(c) == IF c = "-" THEN 45 ELSE 48 + DigitVal(c)

RECURSIVE LexLess(_, _)
LexLess(a, b) ==
    IF b = <<>> THEN FALSE
    ELSE IF a = <<>> THEN TRUE
    ELSE IF Head(a) = Head(b) THEN LexLess(Tail(a), Tail(b))
    ELSE CharCode(Head(a)) < CharCode(Head(b))

\* sorted(S) for a set of strings.
RECURSIVE Sorted(_)
Sorted(S) == IF S = {} THEN <<>>
             ELSE LET m == CHOOSE x \in S : \A y \in S \ {x} : LexLess(x, y)
                  IN <<m>> \o Sorted(S \ {m})

\* The selected period, lines 154-163: both selectors present and both
\* integers, else the current month and year.
SelectedPeriod(m_arg, y_arg) ==
    LET cur == [month |-> today.month, year |-> today.year]
        m == ParseInt(m_arg)
        y == ParseInt(y_arg)
    IN IF ~Falsy(m_arg) /\ ~Falsy(y_arg)
       THEN IF m.ok /\ y.ok THEN [month |-> m.val, year |-> y.val] ELSE cur
       ELSE cur

\* month_prefix, line 165.
MonthPrefix(sel) == IntToStr(sel.year) \o <<"-">> \o Pad2(sel.month)

\* t.category or the default, line 180.
CategoryOf(t) == OrElse(t.category, OtherCategory)

\* sign, line 186: +1 for income, -1 for every other type.
Sign(t) == IF t.type = "income" THEN 1 ELSE -1

\* budget_map, line 196: a dict, so among rows of one category the last
\* row scanned (greatest rowid) wins.
BudgetMap(bs) ==
    [c \in {b.category : b \in bs} |->
        (CHOOSE b \in bs : b.category = c /\
            \A q \in bs : q.category = c => q.id <= b.id).amount]

RECURSIVE SumMap(_, _)
SumMap(f, keys) == IF keys = {} THEN 0
                   ELSE LET k == CHOOSE x \in keys : TRUE
                        IN f[k] + SumMap(f, keys \ {k})

\* The health score, lines 199-209, as an exact fraction num/den, den > 0.
Health(income, balance, exp_by_cat, budget_map, goals_savings) ==
    IF income > 0
    THEN LET spend_eff_n == Max2(0, Min2(balance * 100, 100 * income))
             total_budget == SumMap(budget_map, DOMAIN budget_map)
             spent == [c \in DOMAIN budget_map |->
                         Min2(IF c \in DOMAIN exp_by_cat THEN exp_by_cat[c] ELSE 0,
                              budget_map[c])]
             spent_vs_budget == SumMap(spent, DOMAIN spent)
             budget_eff == IF total_budget > 0
                           THEN [num |-> spent_vs_budget * 100, den |-> total_budget]
                           ELSE [num |-> 100, den |-> 1]
             saving_ratio_n == Min2(goals_savings * 100, 100 * income)
         IN [num |-> (5 * spend_eff_n + 2 * saving_ratio_n) * budget_eff.den
                       + 3 * budget_eff.num * income,
             den |-> 10 * income * budget_eff.den]
    ELSE [num |-> 0, den |-> 1]

NoView == [status |-> 0]

\* dashboard, lines 149-232: the values handed to the template, or the
\* KeyError of MONTHS_UA[sel_month] (line 217) as a 500.
dashboard(m_arg, y_arg) ==
    LET user == current_user
        sel == SelectedPeriod(m_arg, y_arg)
        month_prefix == MonthPrefix(sel)
    IN IF user = {} THEN [status |-> 500]
       ELSE LET u == CHOOSE r \in user : TRUE
                user_tr == {t \in transactions : t.user_id = u.id}
                month_tr == {t \in user_tr : StartsWith(t.date, month_prefix)}
                income == SumAmount({t \in month_tr : t.type = "income"})
                expenses == SumAmount({t \in month_tr : t.type = "expense"})
                balance == income - expenses
                exp_by_cat ==
                    [c \in {CategoryOf(t) : t \in {x \in month_tr : x.type = "expense"}} |->
                        SumAmount({t \in month_tr : t.type = "expense" /\ CategoryOf(t) = c})]
                daily ==
                    [d \in {t.date : t \in month_tr} |->
                        SumAmount({t \in month_tr : t.date = d /\ Sign(t) = 1})
                        - SumAmount({t \in month_tr : t.date = d /\ Sign(t) = -1})]
                daily_labels == Sorted(DOMAIN daily)
                \* round(x, 2) of a value in whole hundredths is the value
                daily_values == [i \in 1..Len(daily_labels) |-> daily[daily_labels[i]]]
                mine == {g \in goals : g.user_id = u.id}
                goals_savings == SumCurrent(mine)
                budget_map == BudgetMap({b \in budgets : b.user_id = u.id})
                health == Health(income, balance, exp_by_cat, budget_map, goals_savings)
            IN IF sel.month \notin 1..12 THEN [status |-> 500]
               ELSE [status |-> 200, selected_month |-> sel.month,
                     selected_year |-> sel.year, income |-> income,
                     expenses |-> expenses, balance |-> balance,
                     daily_labels |-> daily_labels, daily_values |-> daily_values,
                     health |-> health]

-----------------------------------------------------------------------------
(* Inputs *)

Usernames == {"alice", "bob"}
Passwords == {"pw", "bad"}

Cat(c) == <<c>>
Name(c) == <<c>>
May1 == MkDate(2024, 5, 1)
May3 == MkDate(2024, 5, 3)
Apr30 == MkDate(2024, 4, 30)

TxForm(type, amount, category, date) ==
    [amount |-> amount, type |-> type, category_select |-> Missing,
     category |-> category, date |-> date]
BudgetForm(category, amount) == [category |-> category, amount |-> amount]
RenameForm(old, new, amount) ==
    [old_category |-> old, category |-> new, amount |-> amount]
GoalForm(name, target, current) ==
    [name |-> name, target |-> target, current |-> current]

BudgetCats == {Cat("f"), Cat("r")}
RowIds == 1..MaxId

\* Requests of the ownership and authentication specification: one valid
\* form per route.
TxForms == {TxForm("income", <<"1">>, Cat("f"), Missing)}
SaveBudgetForms == {BudgetForm(Cat("f"), <<"1">>)}
UpdateBudgetForms == {RenameForm(Cat("f"), Cat("r"), <<"3">>)}
AddSavingsForms == {GoalForm(Name("c"), <<"9">>, Missing)}
UpdateGoalForms == {GoalForm(Name("t"), <<"8">>, <<"4">>)}

\* Requests of the budget specification.
BudgetSaveForms ==
    {BudgetForm(c, a) : c \in {Cat("f"), <<" ", "r">>}, a \in {<<"1">>, <<"2", ",", "5">>}}
BudgetRenameForms ==
    {RenameForm(o, n, <<"1">>) : o \in BudgetCats, n \in BudgetCats}

\* Requests of the input-validation specification.
InputTxForms ==
    {TxForm("expense", a, Cat("f"), Missing) : a \in {<<"1">>, <<"-", "2">>, <<"x">>}}
InputSaveForms == {BudgetForm(Cat("f"), a) : a \in {<<"2", ",", "5">>, <<"x">>}}
InputRenameForms == {RenameForm(Cat("f"), Cat("r"), a) : a \in {<<"3">>, <<>>}}
InputSavingsForms ==
    {GoalForm(Name("c"), t, c) : t \in {<<"9">>, <<"1", ".", ".">>}, c \in {Missing, <<"x">>}}
InputGoalForms ==
    {GoalForm(Name("t"), t, c) : t \in {<<"8">>, <<"x">>, Missing},
                                 c \in {<<"4">>, <<"4", "x">>}}

\* Requests of the dashboard specification.
DashTxForms ==
    {TxForm("income", <<"1">>, Cat("f"), May1),
     TxForm("expense", <<"4">>, Cat("f"), May1),
     TxForm("expense", <<"2", ",", "5">>, <<>>, May3),
     TxForm("transfer", <<"4">>, Cat("f"), May3),
     TxForm("income", <<"1", "0">>, Cat("f"), Apr30)}
DashBudgetForms == {BudgetForm(Cat("f"), <<"2">>), BudgetForm(Cat("r"), <<"5">>)}
DashRenameForms == {RenameForm(Cat("f"), Cat("r"), <<"0">>)}
DashSavingsForms ==
    {GoalForm(Name("c"), <<"9">>, c) : c \in {Missing, <<"-", "9">>}}
DashGoalForms == {GoalForm(Missing, <<"9">>, <<"3">>)}
MonthArgs == {Missing, <<"5">>, <<"4">>, <<"1", "3">>, <<"x">>}
YearArgs == {Missing, <<"2", "0", "2", "4">>, <<"y">>}

-----------------------------------------------------------------------------
(* State *)

Idle == <<>>

Init ==
    /\ users = {}
    /\ transactions = {}
    /\ budgets = {}
    /\ goals = {}
    /\ session = {}
    /\ pending = [i \in 1..MaxPending |-> Idle]
    /\ last = [route |-> "", form |-> <<>>, outcome |-> "", view |-> NoView]

\* The request just served and its response; view is what a page was
\* rendered from (only the dashboard's is modelled).
Respond(route, form, outcome) ==
    last' = [route |-> route, form |-> form, outcome |-> outcome, view |-> NoView]

-----------------------------------------------------------------------------
(* Authentication routes *)

InsertUser(username, password) ==
    users \cup {[id |-> NextId(users), username |-> username,
                 password |-> Hash(password)]}

\* register, lines 115-135, handled to completion.
Register(username, password) ==
    /\ \A i \in 1..MaxPending : pending[i] = Idle
    /\ IF \E r \in users : r.username = username
       THEN UNCHANGED users /\ Respond("register", <<username, password>>, "exists")
       ELSE /\ users' = InsertUser(username, password)
            /\ Respond("register", <<username, password>>, "registered")
    /\ UNCHANGED <<transactions, budgets, goals, session, pending>>

\* register on worker i up to the query of line 121; the server is threaded,
\* so another request may run before this one reaches its INSERT.
RegisterCheck(i, username, password) ==
    /\ pending[i] = Idle
    /\ IF \E r \in users : r.username = username
       THEN UNCHANGED pending /\ Respond("register", <<username, password>>, "exists")
       ELSE /\ pending' = [pending EXCEPT ![i] = <<username, password>>]
            /\ Respond("register", <<username, password>>, "checked")
    /\ UNCHANGED <<users, transactions, budgets, goals, session>>

\* register on worker i from line 125: the INSERT and commit.
RegisterCommit(i) ==
    /\ pending[i] # Idle
    /\ IF UniqueViolation(users, pending[i][1])
       THEN UNCHANGED users /\ Respond("register", pending[i], "error500")
       ELSE /\ users' = InsertUser(pending[i][1], pending[i][2])
            /\ Respond("register", pending[i], "registered")
    /\ pending' = [pending EXCEPT ![i] = Idle]
    /\ UNCHANGED <<transactions, budgets, goals, session>>

\* login (POST), lines 98-111.
Login(username, password) ==
    /\ LET found == {r \in users : r.username = username}
       IN IF found # {} /\ CheckHash((CHOOSE r \in found : TRUE).password, password)
          THEN /\ session' = {username}
               /\ Respond("login", <<username, password>>, "ok")
          ELSE /\ UNCHANGED session
               /\ Respond("login", <<username, password>>, "bad_credentials")
    /\ UNCHANGED <<users, transactions, budgets, goals, pending>>

\* logout, lines 139-142.
Logout ==
    /\ session' = {}
    /\ Respond("logout", <<>>, "ok")
    /\ UNCHANGED <<users, transactions, budgets, goals, pending>>

-----------------------------------------------------------------------------
(* Mutating routes *)

Mutating == {"add_transaction", "delete_transaction", "save_budget", "update_budget",
             "delete_budget", "add_savings", "update_goal", "delete_goal"}

Apply(route, form, result) ==
    /\ Cardinality(result.db.transactions) + Cardinality(result.db.budgets)
         + Cardinality(result.db.goals) <= MaxRows
    /\ \A r \in result.db.transactions \cup result.db.budgets \cup result.db.goals :
          r.id <= MaxId
    /\ transactions' = result.db.transactions
    /\ budgets' = result.db.budgets
    /\ goals' = result.db.goals
    /\ Respond(route, form, result.outcome)
    /\ UNCHANGED <<users, session, pending>>

AddTransaction(f) == Apply("add_transaction", f, login_required(add_transaction(f)))
DeleteTransaction(tid) ==
    Apply("delete_transaction", tid, login_required(delete_transaction(tid)))
SaveBudget(f) == Apply("save_budget", f, login_required(save_budget_route(f)))
UpdateBudget(f) == Apply("update_budget", f, login_required(update_budget(f)))
DeleteBudget(cat) == Apply("delete_budget", cat, login_required(delete_budget(cat)))
AddSavings(f) == Apply("add_savings", f, login_required(add_savings(f)))
UpdateGoal(gid, f) ==
    Apply("update_goal", [gid |-> gid, fields |-> f], login_required(update_goal(gid, f)))
DeleteGoal(gid) == Apply("delete_goal", gid, login_required(delete_goal(gid)))

\* dashboard (GET), behind login_required.
Dashboard(m_arg, y_arg) ==
    /\ IF session = {}
       THEN Respond("dashboard", [month |-> m_arg, year |-> y_arg], "redirect_login")
       ELSE LET v == dashboard(m_arg, y_arg)
            IN last' = [route |-> "dashboard", form |-> [month |-> m_arg, year |-> y_arg],
                        outcome |-> IF v.status = 200 THEN "ok" ELSE "error500",
                        view |-> v]
    /\ UNCHANGED <<users, transactions, budgets, goals, session, pending>>

-----------------------------------------------------------------------------
(* Specifications *)

\* Every route, two users sharing one browser, one valid form per route.
Next ==
    \/ \E u \in Usernames : Register(u, "pw")
    \/ \E u \in Usernames, p \in Passwords : Login(u, p)
    \/ Logout
    \/ \E f \in TxForms : AddTransaction(f)
    \/ \E tid \in RowIds : DeleteTransaction(tid)
    \/ \E f \in SaveBudgetForms : SaveBudget(f)
    \/ \E f \in UpdateBudgetForms : UpdateBudget(f)
    \/ \E c \in BudgetCats : DeleteBudget(c)
    \/ \E f \in AddSavingsForms : AddSavings(f)
    \/ \E gid \in RowIds, f \in UpdateGoalForms : UpdateGoal(gid, f)
    \/ \E gid \in RowIds : DeleteGoal(gid)

Spec == Init /\ [][Next]_vars

\* The budget routes, two users.
NextBudget ==
    \/ \E u \in Usernames : Register(u, "pw")
    \/ \E u \in Usernames : Login(u, "pw")
    \/ \E f \in BudgetSaveForms : SaveBudget(f)
    \/ \E f \in BudgetRenameForms : UpdateBudget(f)
    \/ \E c \in BudgetCats : DeleteBudget(c)

SpecBudget == Init /\ [][NextBudget]_vars

\* Registration requests interleaved on a threaded server.
NextRegister ==
    \/ \E i \in 1..MaxPending, u \in Usernames, p \in Passwords : RegisterCheck(i, u, p)
    \/ \E i \in 1..MaxPending : RegisterCommit(i)
    \/ \E u \in Usernames, p \in Passwords : Login(u, p)
    \/ Logout

SpecRegister == Init /\ [][NextRegister]_vars

\* The routes with numeric form fields, fed numerals and non-numerals.
NextInput ==
    \/ Register("alice", "pw")
    \/ Login("alice", "pw")
    \/ \E f \in InputTxForms : AddTransaction(f)
    \/ \E f \in InputSaveForms : SaveBudget(f)
    \/ \E f \in InputRenameForms : UpdateBudget(f)
    \/ \E f \in InputSavingsForms : AddSavings(f)
    \/ \E gid \in RowIds, f \in InputGoalForms : UpdateGoal(gid, f)

SpecInput == Init /\ [][NextInput]_vars

\* One user's data and the dashboard computed from it.
NextDashboard ==
    \/ Register("alice", "pw")
    \/ Login("alice", "pw")
    \/ \E f \in DashTxForms : AddTransaction(f)
    \/ \E f \in DashBudgetForms : SaveBudget(f)
    \/ \E f \in DashRenameForms : UpdateBudget(f)
    \/ \E f \in DashSavingsForms : AddSavings(f)
    \/ \E gid \in RowIds, f \in DashGoalForms : UpdateGoal(gid, f)
    \/ \E m \in MonthArgs, y \in YearArgs : Dashboard(m, y)

SpecDashboard == Init /\ [][NextDashboard]_vars

-----------------------------------------------------------------------------
(* Claims *)

UserId(username) == (CHOOSE r \in users : r.username = username).id
Registered(username) == \E r \in users : r.username = username

\* The rows of a table that do not belong to the current user.
OtherUsersRows(rows) == {r \in rows : \A u \in current_user : r.user_id # u.id}

\* C1: ownership isolation.  Whatever request is served under a user's
\* session, every Transaction, Budget and Goal row of another user is still
\* there afterwards with all its fields unchanged.
C1_OwnershipIsolation ==
    [][/\ OtherUsersRows(transactions) \subseteq transactions'
       /\ OtherUsersRows(budgets) \subseteq budgets'
       /\ OtherUsersRows(goals) \subseteq goals']_vars

\* alice has just asked to delete a transaction that is bob's.
C1_Witness ==
    /\ session = {"alice"}
    /\ Registered("bob")
    /\ last.route = "delete_transaction"
    /\ \E t \in transactions : t.id = last.form /\ t.user_id = UserId("bob")

\* C2: budget uniqueness.  No two Budget rows have the same user and category.
C2_BudgetUnique ==
    \A a, b \in budgets : (a.user_id = b.user_id /\ a.category = b.category) => a = b

\* C3: save_budget idempotence.  A successful save_budget for a category the
\* current user already has a row for sets that row's amount to the
\* submitted value and leaves every other row and the number of rows as they
\* were; and serving the same save_budget again changes nothing.
C3_SaveBudgetIdempotent ==
    [][\A f \in BudgetSaveForms :
         (last'.route = "save_budget" /\ last'.outcome = "saved" /\ last'.form = f) =>
            LET mine == {b \in budgets : /\ b.category = Strip(f.category)
                                         /\ \E u \in current_user : b.user_id = u.id}
            IN /\ mine # {} =>
                    /\ Cardinality(budgets') = Cardinality(budgets)
                    /\ [First(mine) EXCEPT !.amount = parse_number(f.amount).val]
                          \in budgets'
                    /\ budgets \ {First(mine)} \subseteq budgets'
               /\ \A u \in current_user :
                    SaveBudgetRows(budgets', u, Strip(f.category),
                                   parse_number(f.amount).val) = budgets']_vars

\* save_budget has just been served for a category of which the user holds
\* two rows (so a row existed when it ran): the first has the new amount.
C3_Witness ==
    /\ last.route = "save_budget"
    /\ last.outcome = "saved"
    /\ last.form = BudgetForm(Cat("f"), <<"2", ",", "5">>)
    /\ \E a, b \in budgets :
          /\ a.id < b.id /\ a.user_id = b.user_id
          /\ a.category = Cat("f") /\ b.category = Cat("f")
          /\ a.amount = 250 /\ b.amount = 100

\* C4: username uniqueness.  No two User rows share a username, however
\* register requests interleave; and a register request for a username that
\* is taken leaves the users table as it was.
C4_UsernameUnique ==
    /\ [](\A a, b \in users : a.username = b.username => a = b)
    /\ [][(last'.route = "register" /\ Registered(last'.form[1])) =>
              users' = users]_vars

\* Two registrations of one username raced past the check; the second
\* INSERT was refused.
C4_Witness ==
    /\ last.route = "register"
    /\ last.outcome = "error500"
    /\ Registered(last.form[1])

\* C5: auth gate.  A mutating route requested while the session holds no
\* identity redirects to the login page and leaves the tables unchanged.
C5_AuthGate ==
    [][(session = {} /\ last'.route \in Mutating) =>
          (last'.outcome = "redirect_login" /\ UNCHANGED tables)]_vars

\* After a logout, with rows stored, a mutating request was turned away.
C5_Witness ==
    /\ session = {}
    /\ last.route = "delete_goal"
    /\ last.outcome = "redirect_login"
    /\ \E g \in goals : g.id = last.form

\* C6: health score range.  The health score the dashboard computes lies
\* in [0, 100].
C6_HealthInRange ==
    (last.route = "dashboard" /\ last.view.status = 200) =>
        /\ 0 <= last.view.health.num
        /\ last.view.health.num <= 100 * last.view.health.den

\* A selector that is missing, not a number, or a month outside 1..12.
BadSelector(form) ==
    \/ form.month \in {Missing, <<"x">>, <<"1", "3">>}
    \/ form.year \in {Missing, <<"y">>}

\* C7: period selector fallback.  A dashboard request of a logged-in user
\* whose month or year selector is missing, non-numeric or out of range
\* succeeds and shows the current month and year.
C7_PeriodFallback ==
    (last.route = "dashboard" /\ last.outcome # "redirect_login" /\ BadSelector(last.form)) =>
        /\ last.view.status = 200
        /\ last.view.selected_month = today.month
        /\ last.view.selected_year = today.year

\* Field values that are not numbers.
BadNumerals == {<<>>, <<"x">>, <<"4", "x">>, <<"1", ".", ".">>}

InvalidNumeric(l) ==
    \/ /\ l.route \in {"add_transaction", "save_budget", "update_budget"}
       /\ l.form.amount \in BadNumerals
    \/ /\ l.route = "add_savings"
       /\ (l.form.target \in BadNumerals \/ l.form.current \in BadNumerals)
    \/ /\ l.route = "update_goal"
       /\ \/ l.form.fields.target \in BadNumerals \cup {Missing}
          \/ l.form.fields.current \in BadNumerals \cup {Missing}

\* C8: no partial write.  A request to add_transaction, save_budget,
\* update_budget, add_savings or update_goal with a numeric field that is not
\* a number leaves every Transaction, Budget and Goal row unchanged.
C8_NoPartialWrite ==
    [][InvalidNumeric(last') => UNCHANGED tables]_vars

\* update_goal on the user's own goal, a new name and a valid target, but a
\* current that is not a number: refused, with the goal still stored.
C8_Witness ==
    /\ last.route = "update_goal"
    /\ last.outcome = "invalid_number"
    /\ last.form.fields.target = <<"8">>
    /\ last.form.fields.current = <<"4", "x">>
    /\ \E g \in goals : g.id = last.form.gid /\ g.name # last.form.fields.name

\* C9: non-negative amounts.  Every stored Transaction has amount >= 0.
C9_NonNegativeAmounts == \A t \in transactions : t.amount >= 0

RECURSIVE SumSeq(_)
SumSeq(q) == IF q = <<>> THEN 0 ELSE Head(q) + SumSeq(Tail(q))

\* C10: daily series consistency.  The per-date net values of the dashboard
\* add up to its balance.
C10_DailySumIsBalance ==
    (last.route = "dashboard" /\ last.view.status = 200) =>
        SumSeq(last.view.daily_values) = last.view.balance

=============================================================================
